---- MODULE Spec2Model ----
(***************************************************************************)
(* Model of the MIDI channel-message reader (package channel) and of the  *)
(* meta-message codecs (package meta).                                    *)
(*                                                                        *)
(* A byte source (io.Reader) is a sequence of bytes `input` together with *)
(* the number `pos` of bytes already consumed.  A call that returns is    *)
(* recorded in `ret` with kind "return"; a call that ends in a Go run-time*)
(* panic is recorded with kind "panic".                                   *)
(***************************************************************************)
EXTENDS Integers, Sequences, FiniteSets, TLC

VARIABLES
    input,    \* contents of the byte source
    pos,      \* number of bytes consumed from the source
    reader,   \* channel.reader: status, done, readNoteOffPedantic
    typ,      \* meta type id handed to ReadFrom / selecting the codec
    arg,      \* message value whose Raw() is taken
    raw,      \* bytes returned by the last Raw()
    ret,      \* outcome of the last decode call
    calls,    \* number of decode calls made so far
    op        \* name of the last operation

vars == <<input, pos, reader, typ, arg, raw, ret, calls, op>>

-----------------------------------------------------------------------------
(* Bounds *)

\* longest byte source of a channel reader
MaxLen == 3

\* Read calls made on one reader
MaxCalls == 3

\* most bytes after the length field of a meta source
MaxPayload == 4

\* largest BPM of the contiguous range of Tempo values
MaxBPM == 300

-----------------------------------------------------------------------------
(* Values shared by both packages *)

Nil == [variant |-> "nil"]

NoCall == [kind |-> "none", msg |-> Nil, err |-> "nil"]

Returned(m, e) == [kind |-> "return", msg |-> m, err |-> e]

Panicked == [kind |-> "panic", msg |-> Nil, err |-> "nil"]

RECURSIVE SeqsUpTo(_, _)
SeqsUpTo(S, n) ==
    IF n = 0 THEN {<<>>}
    ELSE LET shorter == SeqsUpTo(S, n - 1)
         IN  shorter \cup {Append(s, b) : s \in {t \in shorter : Len(t) = n - 1}, b \in S}

-----------------------------------------------------------------------------
(* internal/lib: byte-source helpers *)

\* lib.ReadByte: one byte, or io.EOF when the source is exhausted
ReadByte(in, p) ==
    IF p < Len(in)
    THEN [b |-> in[p + 1], err |-> "nil", pos |-> p + 1]
    ELSE [b |-> 0, err |-> "EOF", pos |-> p]

\* lib.ParseStatus: high nibble is the message type, low nibble the channel
ParseStatus(status) == [typ |-> status \div 16, channel |-> status % 16]


\* the result of a lib read: value v, error, source position after the read
Got(v, p) == [v |-> v, err |-> "nil", pos |-> p]

Failed(e, p) == [v |-> 0, err |-> e, pos |-> p]

\* lib.ReadVarLength: a variable-length quantity, 7 bits per byte, most
\* significant group first, the last byte has no continuation bit (0x80);
\* the source ending first is a truncation (EOF); more than 4 bytes are rejected
RECURSIVE vlqFrom(_, _, _, _)
vlqFrom(in, p, acc, n) ==
    IF p >= Len(in) THEN Failed("EOF", p)
    ELSE LET b == in[p + 1]
             v == acc * 128 + (b % 128)
         IN  IF b < 128 THEN Got(v, p + 1)
             ELSE IF n = 4 THEN Failed("VarLengthOverflow", p + 1)
             ELSE vlqFrom(in, p + 1, v, n + 1)

ReadVarLength(in, p) == vlqFrom(in, p, 0, 1)

\* lib.ReadUint16 / lib.ReadUint24: big-endian, all bytes or a truncation
ReadUint16(in, p) ==
    IF p + 2 <= Len(in) THEN Got(in[p + 1] * 256 + in[p + 2], p + 2)
    ELSE Failed("EOF", Len(in))

ReadUint24(in, p) ==
    IF p + 3 <= Len(in) THEN Got(in[p + 1] * 65536 + in[p + 2] * 256 + in[p + 3], p + 3)
    ELSE Failed("EOF", Len(in))

\* lib.ReadVarLengthData: the VLQ length, then exactly that many bytes
ReadVarLengthData(in, p) ==
    LET l == ReadVarLength(in, p)
    IN  IF l.err # "nil" THEN [v |-> <<>>, err |-> l.err, pos |-> l.pos]
        ELSE IF l.pos + l.v > Len(in) THEN [v |-> <<>>, err |-> "EOF", pos |-> Len(in)]
        ELSE [v |-> SubSeq(in, l.pos + 1, l.pos + l.v), err |-> "nil", pos |-> l.pos + l.v]

\* lib.ReadText: ReadVarLengthData taken as a string
ReadText(in, p) == ReadVarLengthData(in, p)

\* lib.VlqEncode: the minimal variable-length quantity of v
RECURSIVE vlqGroups(_)
vlqGroups(v) ==
    IF v < 128 THEN <<v>> ELSE Append(vlqGroups(v \div 128), v % 128)

VlqEncode(v) ==
    LET g == vlqGroups(v)
    IN  [i \in 1 .. Len(g) |-> IF i < Len(g) THEN g[i] + 128 ELSE g[i]]

-----------------------------------------------------------------------------
(* package channel *)

byteProgramChange == 12
byteChannelPressure == 13
byteNoteOff == 8
byteNoteOn == 9
bytePolyphonicKeyPressure == 10
byteControlChange == 11
bytePitchWheel == 14

\* setter1.set of ProgramChange and AfterTouch
set1(name, channel, a) == [type |-> name, channel |-> channel, arg1 |-> a]

\* setter2.set: NoteOff carries channel and key only, every other message
\* keeps both data bytes
set2(name, channel, a1, a2) ==
    IF name = "NoteOff"
    THEN [type |-> name, channel |-> channel, key |-> a1]
    ELSE IF name \in {"NoteOn", "NoteOffPedantic"}
    THEN [type |-> name, channel |-> channel, key |-> a1, velocity |-> a2]
    ELSE [type |-> name, channel |-> channel, arg1 |-> a1, arg2 |-> a2]

getMsg1(t, channel, a) ==
    IF t = byteProgramChange THEN [panic |-> FALSE, msg |-> set1("ProgramChange", channel, a)]
    ELSE IF t = byteChannelPressure THEN [panic |-> FALSE, msg |-> set1("AfterTouch", channel, a)]
    ELSE [panic |-> TRUE, msg |-> Nil]

\* the variant getMsg2 constructs before set is called
msg2Type(pedantic, t) ==
    IF t = byteNoteOff THEN (IF pedantic THEN "NoteOffPedantic" ELSE "NoteOff")
    ELSE IF t = byteNoteOn THEN "NoteOn"
    ELSE IF t = bytePolyphonicKeyPressure THEN "PolyphonicAfterTouch"
    ELSE IF t = byteControlChange THEN "ControlChange"
    ELSE IF t = bytePitchWheel THEN "PitchWheel"
    ELSE "panic"

getMsg2Keep(pedantic, t, channel, a1, a2) ==
    LET name == msg2Type(pedantic, t)
    IN  IF name = "panic" THEN [panic |-> TRUE, msg |-> Nil]
        ELSE [panic |-> FALSE, msg |-> set2(name, channel, a1, a2)]

getMsg2(pedantic, t, channel, a1, a2) ==
    LET name == msg2Type(pedantic, t)
        m == set2(name, channel, a1, a2)
    IN  IF name = "panic" THEN [panic |-> TRUE, msg |-> Nil]
        ELSE IF m.type = "NoteOn" /\ m.velocity = 0
        THEN [panic |-> FALSE, msg |-> set2("NoteOff", channel, a1, 0)]
        ELSE [panic |-> FALSE, msg |-> m]

\* the case list of the switch in Read that takes a single data byte
oneArgumentOnly == {byteProgramChange, byteChannelPressure}

doneOnlyAfterSuccess(err) == err = "nil"

\* r.done after the first lib.ReadByte of Read: set whatever ReadByte returned
doneAfterFirstByte(err) == TRUE

reader_ReadBothBytesFirst(r, in, p) ==
    IF r.done THEN [ret |-> Returned(Nil, "EOF"), pos |-> p, done |-> TRUE]
    ELSE
        LET ps == ParseStatus(r.status)
            r1 == ReadByte(in, p)
            r2 == ReadByte(in, r1.pos)
            d  == doneAfterFirstByte(r1.err)
            g  == IF ps.typ \in oneArgumentOnly
                  THEN getMsg1(ps.typ, ps.channel, r1.b)
                  ELSE getMsg2(r.readNoteOffPedantic, ps.typ, ps.channel, r1.b, r2.b)
        IN  IF r1.err # "nil" THEN [ret |-> Returned(Nil, r1.err), pos |-> r1.pos, done |-> d]
            ELSE IF r2.err # "nil" THEN [ret |-> Returned(Nil, r2.err), pos |-> r2.pos, done |-> d]
            ELSE [ret |-> IF g.panic THEN Panicked ELSE Returned(g.msg, "nil"),
                  pos |-> r2.pos, done |-> d]

\* reader.Read: the outcome, the source position and r.done after the call
reader_Read(r, in, p) ==
    IF r.done THEN [ret |-> Returned(Nil, "EOF"), pos |-> p, done |-> TRUE]
    ELSE
        LET ps == ParseStatus(r.status)
            r1 == ReadByte(in, p)
            d  == doneAfterFirstByte(r1.err)
        IN  IF r1.err # "nil" THEN [ret |-> Returned(Nil, r1.err), pos |-> r1.pos, done |-> d]
            ELSE IF ps.typ \in oneArgumentOnly
            THEN LET g == getMsg1(ps.typ, ps.channel, r1.b)
                 IN  [ret |-> IF g.panic THEN Panicked ELSE Returned(g.msg, "nil"),
                      pos |-> r1.pos, done |-> d]
            ELSE LET r2 == ReadByte(in, r1.pos)
                     g  == getMsg2(r.readNoteOffPedantic, ps.typ, ps.channel, r1.b, r2.b)
                 IN  IF r2.err # "nil"
                     THEN [ret |-> Returned(Nil, r2.err), pos |-> r2.pos, done |-> d]
                     ELSE [ret |-> IF g.panic THEN Panicked ELSE Returned(g.msg, "nil"),
                           pos |-> r2.pos, done |-> d]

Statuses == 0 .. 255

DataBytes == {0, 1, 127}

\* NewReader(input, status, options...): done is false, the option sets the
\* flag; the reader's input is the byte source <<input, pos>>
NewReader(status, pedantic) ==
    [status |-> status, done |-> FALSE, readNoteOffPedantic |-> pedantic]

NoReader == NewReader(0, FALSE)

InitChannel ==
    /\ input \in SeqsUpTo(DataBytes, MaxLen)
    /\ \E s \in Statuses, pedantic \in BOOLEAN : reader = NewReader(s, pedantic)
    /\ pos = 0
    /\ typ = 0
    /\ arg = Nil
    /\ raw = <<>>
    /\ ret = NoCall
    /\ calls = 0
    /\ op = "NewReader"

\* one call of Read on the reader (a caller that recovered from a panic may
\* call again)
Read ==
    /\ calls < MaxCalls
    /\ LET out == reader_Read(reader, input, pos)
       IN  /\ ret' = out.ret
           /\ pos' = out.pos
           /\ reader' = [reader EXCEPT !.done = out.done]
    /\ calls' = calls + 1
    /\ op' = "Read"
    /\ UNCHANGED <<input, typ, arg, raw>>

\* the source is a stream: a further byte becomes available between two calls
Arrive ==
    /\ calls >= 1
    /\ calls < MaxCalls
    /\ Len(input) < MaxLen
    /\ \E b \in DataBytes : input' = Append(input, b)
    /\ UNCHANGED <<pos, reader, typ, arg, raw, ret, calls, op>>

NextChannel == Read \/ Arrive

SpecChannel == InitChannel /\ [][NextChannel]_vars

\* the first Read on the reader has returned a message
FirstReadOK == calls = 1 /\ ret.kind = "return" /\ ret.err = "nil"

statusTyp == ParseStatus(reader.status).typ

statusChannel == ParseStatus(reader.status).channel

\* C3: with ReadNoteOffPedantic set, a Read of a literal note-off status (0x8)
\* returns a NoteOff, and a Read of a note-on status (0x9) with velocity byte 0
\* returns a NoteOffPedantic that keeps the zero velocity.
C3_PedanticAsDocumented ==
    (FirstReadOK /\ reader.readNoteOffPedantic) =>
        /\ statusTyp = byteNoteOff => ret.msg.type = "NoteOff"
        /\ (statusTyp = byteNoteOn /\ input[2] = 0) =>
               (ret.msg.type = "NoteOffPedantic" /\ ret.msg.velocity = 0)

\* C4: without the pedantic option, a Read of status 0x8c with data (k, v) and
\* a Read of status 0x9c with data (k, 0) both return the same value, the
\* NoteOff of channel c and key k; no Read returns a NoteOn of velocity 0.
C4_NoteOffIdentical ==
    /\ (FirstReadOK /\ ~reader.readNoteOffPedantic
          /\ (statusTyp = byteNoteOff \/ (statusTyp = byteNoteOn /\ input[2] = 0))) =>
            ret.msg = [type |-> "NoteOff", channel |-> statusChannel, key |-> input[1]]
    /\ (ret.kind = "return" /\ ret.msg # Nil) =>
            ~(ret.msg.type = "NoteOn" /\ ret.msg.velocity = 0)

C4_Witness ==
    /\ FirstReadOK /\ ~reader.readNoteOffPedantic
    /\ statusTyp = byteNoteOn /\ statusChannel = 2 /\ input[2] = 0
    /\ ret.msg = [type |-> "NoteOff", channel |-> 2, key |-> input[1]]

\* C5: once Read has been called on a reader, every later Read returns io.EOF
\* with no message and consumes no byte of the source.
C5_SingleUse ==
    [][(calls >= 1 /\ calls' = calls + 1) =>
          (ret' = Returned(Nil, "EOF") /\ pos' = pos)]_vars

C5_Witness ==
    /\ calls = 2 /\ op = "Read"
    /\ ret = Returned(Nil, "EOF")
    /\ pos = 0 /\ Len(input) = 2

\* C6: a successful Read has consumed exactly 1 byte for ProgramChange and
\* AfterTouch, exactly 2 bytes for NoteOff, NoteOn, PolyphonicAfterTouch,
\* ControlChange and PitchWheel; later bytes stay unread.
C6_BytesConsumed ==
    FirstReadOK =>
        /\ statusTyp \in {byteProgramChange, byteChannelPressure} => pos = 1
        /\ statusTyp \in {byteNoteOff, byteNoteOn, bytePolyphonicKeyPressure,
                           byteControlChange, bytePitchWheel} => pos = 2

C6_Witness ==
    /\ FirstReadOK /\ statusTyp = byteChannelPressure
    /\ pos = 1 /\ Len(input) = 3

\* C7: a channel Read never aborts: for every status byte and every source
\* content it ends by returning a message or an error.
C7_NeverAborts == op = "Read" => ret.kind = "return"

-----------------------------------------------------------------------------
(* package meta *)

byteEndOfTrack == 47
byteSequenceNumber == 0
byteText == 1
byteCopyright == 2
byteSequence == 3
byteTrackInstrument == 4
byteLyric == 5
byteMarker == 6
byteCuePoint == 7
byteMIDIChannel == 32
byteDevicePort == 9
byteMIDIPort == 33
byteTempo == 81
byteTimeSignature == 88
byteKeySignature == 89
byteSequencerSpecificInfo == 127

majorMode == 0
minorMode == 1

\* Go's fixed-width integers
uint8(x) == x % 256

int8(x) == IF x % 256 >= 128 THEN (x % 256) - 256 ELSE x % 256

\* x << n on a uint8 with a uint8 shift count
shl8(x, n) == IF n >= 8 THEN 0 ELSE (x * (2 ^ n)) % 256

\* message values
EndOfTrack == [variant |-> "EndOfTrack"]

SequenceNumber(n) == [variant |-> "SequenceNumber", number |-> n]

MIDIChannel(n) == [variant |-> "MIDIChannel", number |-> n]

MIDIPort(n) == [variant |-> "MIDIPort", number |-> n]

Tempo(bpm) == [variant |-> "Tempo", bpm |-> bpm]

TimeSignature(num, denom) ==
    [variant |-> "TimeSignature", Numerator |-> num, Denominator |-> denom]

KeySignature(key, isMajor, num, isFlat) ==
    [variant |-> "KeySignature", Key |-> key, IsMajor |-> isMajor, Num |-> num,
     IsFlat |-> isFlat]

Undefined(t, data) == [variant |-> "Undefined", Typ |-> t, Data |-> data]

\* Text, Copyright, Sequence, TrackInstrument, Marker, Lyric, CuePoint, DevicePort
TextOf(name, text) == [variant |-> name, text |-> text]

\* outcome of a readFrom or a Raw: what the call did and where the source is
Value(m, p) == [ret |-> Returned(m, "nil"), pos |-> p]

Error(e, p) == [ret |-> Returned(Nil, e), pos |-> p]

Panic(p) == [ret |-> Panicked, pos |-> p]

\* metaMessage.Bytes
metaMessage_Bytes(t, data) == <<255, t>> \o VlqEncode(Len(data)) \o data

endOfTrack_Raw(m) == metaMessage_Bytes(byteEndOfTrack, <<>>)

endOfTrack_readFromAnyLength(m, in, p) ==
    LET l == ReadVarLength(in, p)
    IN  IF l.err # "nil" THEN Error(l.err, l.pos) ELSE Value(m, l.pos)

endOfTrack_readFrom(m, in, p) ==
    LET l == ReadVarLength(in, p)
    IN  IF l.err # "nil" THEN Error(l.err, l.pos)
        ELSE IF l.v # 0 THEN Error("UnexpectedMessageLength", l.pos)
        ELSE Value(m, l.pos)

MIDIPort_Raw(m) == metaMessage_Bytes(byteMIDIPort, <<m.number>>)

MIDIPort_readFrom(m, in, p) ==
    LET l == ReadVarLength(in, p)
        b == ReadByte(in, l.pos)
    IN  IF l.err # "nil" THEN Error(l.err, l.pos)
        ELSE IF l.v # 1 THEN Error("UnexpectedMessageLength", l.pos)
        ELSE IF b.err # "nil" THEN Error(b.err, b.pos)
        ELSE Value(MIDIPort(b.b), b.pos)

MIDIChannel_Raw(m) == metaMessage_Bytes(byteMIDIChannel, <<m.number>>)

MIDIChannel_readFrom(m, in, p) ==
    LET l == ReadVarLength(in, p)
        b == ReadByte(in, l.pos)
    IN  IF l.err # "nil" THEN Error(l.err, l.pos)
        ELSE IF l.v # 1 THEN Error("UnexpectedMessageLength", l.pos)
        ELSE IF b.err # "nil" THEN Error(b.err, b.pos)
        ELSE Value(MIDIChannel(b.b), b.pos)

\* big.NewInt(n).Bytes(): the big-endian bytes of n without leading zeros
RECURSIVE bigBytes(_)
bigBytes(n) == IF n = 0 THEN <<>> ELSE Append(bigBytes(n \div 256), n % 256)

\* the switch of Tempo.Raw that right-aligns b4 in three bytes
pad3(b4) ==
    IF Len(b4) = 1 THEN <<0, 0, b4[1]>>
    ELSE IF Len(b4) = 2 THEN <<0, b4[1], b4[2]>>
    ELSE IF Len(b4) = 3 THEN <<b4[1], b4[2], b4[3]>>
    ELSE <<0, 0, 0>>

Tempo_RawUnclamped(m) ==
    metaMessage_Bytes(byteTempo, pad3(bigBytes(60000000 \div m.bpm)))

\* Tempo.Raw, for BPM >= 1 (uint32(float64(60000000)/float64(BPM)) is the
\* integer quotient)
Tempo_Raw(m) ==
    LET f == 60000000 \div m.bpm
        muSecPerQuarterNote == IF f > 16777215 THEN 16777215 ELSE f
    IN  metaMessage_Bytes(byteTempo, pad3(bigBytes(muSecPerQuarterNote)))

\* Tempo.readFrom: the division by a zero microsecondsPerCrotchet is a
\* run-time panic (integer divide by zero)
Tempo_readFrom(m, in, p) ==
    LET l == ReadVarLength(in, p)
        u == ReadUint24(in, l.pos)
    IN  IF l.err # "nil" THEN Error(l.err, l.pos)
        ELSE IF l.v # 3 THEN Error("UnexpectedMessageLength", l.pos)
        ELSE IF u.err # "nil" THEN Error(u.err, u.pos)
        ELSE IF u.v = 0 THEN Panic(u.pos)
        ELSE Value(Tempo(60000000 \div u.v), u.pos)

\* SequenceNumber.Raw: binary.Write of the uint16, big-endian
SequenceNumber_Raw(m) ==
    metaMessage_Bytes(byteSequenceNumber, <<m.number \div 256, m.number % 256>>)

\* SequenceNumber.readFrom: the length is one byte read with lib.ReadByte
SequenceNumber_readFrom(m, in, p) ==
    LET l == ReadByte(in, p)
        u == ReadUint16(in, l.pos)
    IN  IF l.err # "nil" THEN Error(l.err, l.pos)
        ELSE IF l.b = 0 THEN Value(SequenceNumber(0), l.pos)
        ELSE IF u.err # "nil" THEN Error(u.err, u.pos)
        ELSE Value(SequenceNumber(u.v), u.pos)

bin2decDenom(bin) == IF bin = 0 THEN 1 ELSE shl8(2, uint8(bin - 1))

RECURSIVE dec2binLoop(_, _)
dec2binLoop(dec, bin) ==
    IF dec > 2 THEN dec2binLoop(dec \div 2, uint8(bin + 1)) ELSE uint8(bin + 1)

dec2binDenom(dec) == IF dec <= 1 THEN 0 ELSE dec2binLoop(dec, 0)

TimeSignature_Raw(m) ==
    metaMessage_Bytes(byteTimeSignature, <<m.Numerator, dec2binDenom(m.Denominator), 8, 8>>)

\* TimeSignature.readFrom: Denominator is 2 << (denomenator - 1) in uint8
TimeSignature_readFrom(m, in, p) ==
    LET l == ReadVarLength(in, p)
        numerator == ReadByte(in, l.pos)
        denomenator == ReadByte(in, numerator.pos)
        clocksPerClick == ReadByte(in, denomenator.pos)
        demiSemiQuaverPerQuarter == ReadByte(in, clocksPerClick.pos)
    IN  IF l.err # "nil" THEN Error(l.err, l.pos)
        ELSE IF l.v # 4 THEN Error("UnexpectedMessageLength", l.pos)
        ELSE IF numerator.err # "nil" THEN Error(numerator.err, numerator.pos)
        ELSE IF denomenator.err # "nil" THEN Error(denomenator.err, denomenator.pos)
        ELSE IF clocksPerClick.err # "nil" THEN Error(clocksPerClick.err, clocksPerClick.pos)
        ELSE IF demiSemiQuaverPerQuarter.err # "nil"
        THEN Error(demiSemiQuaverPerQuarter.err, demiSemiQuaverPerQuarter.pos)
        ELSE Value(TimeSignature(numerator.b, shl8(2, uint8(denomenator.b - 1))),
                   demiSemiQuaverPerQuarter.pos)

KeySignature_Raw(m) ==
    LET mi == IF m.IsMajor THEN 0 ELSE 1
        sf == IF m.IsFlat THEN int8(int8(m.Num) * (-1)) ELSE int8(m.Num)
    IN  metaMessage_Bytes(byteKeySignature, <<uint8(sf), uint8(mi)>>)

RECURSIVE clampOctave(_)
clampOctave(tmp) == IF tmp < 0 THEN clampOctave(tmp + 12) ELSE tmp

\* Go's remainder truncates towards zero: it has the sign of the dividend
goRem(a, b) == IF a < 0 THEN -((-a) % b) ELSE a % b

keyFromSharpsOrFlatsNoClamp(sharpsOrFlats, mode) ==
    uint8(goRem(int8(sharpsOrFlats * 7) - (IF mode = minorMode THEN 3 ELSE 0), 12))

\* keyFromSharpsOrFlats: sharpsOrFlats * 7 is an int8 product
keyFromSharpsOrFlats(sharpsOrFlats, mode) ==
    LET tmp == int8(sharpsOrFlats * 7) - (IF mode = minorMode THEN 3 ELSE 0)
    IN  uint8(clampOctave(tmp) % 12)

KeySignature_readFrom(m, in, p) ==
    LET l == ReadVarLength(in, p)
        b == ReadByte(in, l.pos)
        mode == ReadByte(in, b.pos)
        sharpsOrFlats == int8(b.b)
        num == IF sharpsOrFlats < 0 THEN int8(sharpsOrFlats * (-1)) ELSE sharpsOrFlats
    IN  IF l.err # "nil" THEN Error(l.err, l.pos)
        ELSE IF l.v # 2 THEN Error("UnexpectedMessageLength", l.pos)
        ELSE IF b.err # "nil" THEN Error(b.err, b.pos)
        ELSE IF mode.err # "nil" THEN Error(mode.err, mode.pos)
        ELSE Value(KeySignature(keyFromSharpsOrFlats(sharpsOrFlats, mode.b),
                                mode.b = majorMode, uint8(num), sharpsOrFlats < 0),
                   mode.pos)

\* KeySignature.Note: the note name of m.Key (sharp and flat signs written
\* # and b); any Key outside 0..11 reaches panic("unreachable")
KeySignature_Note(m) ==
    LET accidental(sharp, flat) == IF m.IsFlat THEN flat ELSE sharp
    IN  CASE m.Key = 0 -> [panic |-> FALSE, note |-> "C"]
          [] m.Key = 2 -> [panic |-> FALSE, note |-> "D"]
          [] m.Key = 4 -> [panic |-> FALSE, note |-> "E"]
          [] m.Key = 5 -> [panic |-> FALSE, note |-> "F"]
          [] m.Key = 7 -> [panic |-> FALSE, note |-> "G"]
          [] m.Key = 9 -> [panic |-> FALSE, note |-> "A"]
          [] m.Key = 11 -> [panic |-> FALSE, note |-> "B"]
          [] m.Key = 1 -> [panic |-> FALSE, note |-> accidental("C#", "Db")]
          [] m.Key = 3 -> [panic |-> FALSE, note |-> accidental("D#", "Eb")]
          [] m.Key = 6 -> [panic |-> FALSE, note |-> accidental("F#", "Gb")]
          [] m.Key = 8 -> [panic |-> FALSE, note |-> accidental("G#", "Ab")]
          [] m.Key = 10 -> [panic |-> FALSE, note |-> accidental("A#", "Bb")]
          [] OTHER -> [panic |-> TRUE, note |-> ""]

Undefined_Raw(m) == metaMessage_Bytes(m.Typ, m.Data)

Undefined_readFromNoTyp(m, in, p) ==
    LET d == ReadVarLengthData(in, p)
    IN  IF d.err # "nil" THEN Error(d.err, d.pos)
        ELSE Value(Undefined(0, d.v), d.pos)

Undefined_readFrom(m, in, p) ==
    LET d == ReadVarLengthData(in, p)
    IN  IF d.err # "nil" THEN Error(d.err, d.pos)
        ELSE Value(Undefined(m.Typ, d.v), d.pos)

\* readFrom of Text, Copyright, Sequence, TrackInstrument, Marker, Lyric,
\* CuePoint and DevicePort
Text_readFrom(m, in, p) ==
    LET t == ReadText(in, p)
    IN  IF t.err # "nil" THEN Error(t.err, t.pos)
        ELSE Value(TextOf(m.variant, t.v), t.pos)

\* the type byte each text variant writes in Raw
textByte(name) ==
    CASE name = "Text" -> byteText
      [] name = "Copyright" -> byteCopyright
      [] name = "Sequence" -> byteSequence
      [] name = "TrackInstrument" -> byteTrackInstrument
      [] name = "Lyric" -> byteLyric
      [] name = "Marker" -> byteMarker
      [] name = "CuePoint" -> byteCuePoint

Text_Raw(m) == metaMessage_Bytes(textByte(m.variant), m.text)

\* Message.Raw by variant; DevicePort.Raw panics ("not implemented")
Raw(m) ==
    CASE m.variant = "EndOfTrack" -> [panic |-> FALSE, bytes |-> endOfTrack_Raw(m)]
      [] m.variant = "SequenceNumber" -> [panic |-> FALSE, bytes |-> SequenceNumber_Raw(m)]
      [] m.variant = "MIDIChannel" -> [panic |-> FALSE, bytes |-> MIDIChannel_Raw(m)]
      [] m.variant = "MIDIPort" -> [panic |-> FALSE, bytes |-> MIDIPort_Raw(m)]
      [] m.variant = "Tempo" -> [panic |-> FALSE, bytes |-> Tempo_Raw(m)]
      [] m.variant = "TimeSignature" -> [panic |-> FALSE, bytes |-> TimeSignature_Raw(m)]
      [] m.variant = "KeySignature" -> [panic |-> FALSE, bytes |-> KeySignature_Raw(m)]
      [] m.variant = "Undefined" -> [panic |-> FALSE, bytes |-> Undefined_Raw(m)]
      [] m.variant = "DevicePort" -> [panic |-> TRUE, bytes |-> <<>>]
      [] OTHER -> [panic |-> FALSE, bytes |-> Text_Raw(m)]

\* Message.readFrom by variant; a call on the nil interface value panics
readFrom(m, in, p) ==
    CASE m.variant = "nil" -> Panic(p)
      [] m.variant = "EndOfTrack" -> endOfTrack_readFrom(m, in, p)
      [] m.variant = "SequenceNumber" -> SequenceNumber_readFrom(m, in, p)
      [] m.variant = "MIDIChannel" -> MIDIChannel_readFrom(m, in, p)
      [] m.variant = "MIDIPort" -> MIDIPort_readFrom(m, in, p)
      [] m.variant = "Tempo" -> Tempo_readFrom(m, in, p)
      [] m.variant = "TimeSignature" -> TimeSignature_readFrom(m, in, p)
      [] m.variant = "KeySignature" -> KeySignature_readFrom(m, in, p)
      [] m.variant = "Undefined" -> Undefined_readFrom(m, in, p)
      [] OTHER -> Text_readFrom(m, in, p)

metaMessages ==
    (byteEndOfTrack :> EndOfTrack)
    @@ (byteSequenceNumber :> SequenceNumber(0))
    @@ (byteText :> TextOf("Text", <<>>))
    @@ (byteCopyright :> TextOf("Copyright", <<>>))
    @@ (byteSequence :> TextOf("Sequence", <<>>))
    @@ (byteTrackInstrument :> TextOf("TrackInstrument", <<>>))
    @@ (byteLyric :> TextOf("Lyric", <<>>))
    @@ (byteMarker :> TextOf("Marker", <<>>))
    @@ (byteCuePoint :> TextOf("CuePoint", <<>>))
    @@ (byteMIDIChannel :> MIDIChannel(0))
    @@ (byteDevicePort :> TextOf("DevicePort", <<>>))
    @@ (byteMIDIPort :> MIDIPort(0))
    @@ (byteTempo :> Tempo(0))
    @@ (byteTimeSignature :> TimeSignature(0, 0))
    @@ (byteKeySignature :> KeySignature(0, FALSE, 0, FALSE))
    @@ (byteSequencerSpecificInfo :> Nil)

\* Dispatch: the map lookup; a missing key gives the nil Message
Dispatch(b) == IF b \in DOMAIN metaMessages THEN metaMessages[b] ELSE Nil

\* ReadFrom: m is replaced by Undefined{Typ: typ} when Dispatch found a variant
\* (m != nil), and is left nil otherwise
ReadFrom(t, in, p) ==
    LET m == Dispatch(t)
        receiver == IF m # Nil THEN Undefined(t, <<>>) ELSE m
    IN  readFrom(receiver, in, p)

-----------------------------------------------------------------------------
(* Decoding meta events from a byte source *)

\* type ids: every key of the registry, and two ids it does not hold
MetaTypes == DOMAIN metaMessages \cup {8, 80}

\* a length field (well-formed, non-minimal or truncated) ...
LengthFields ==
    {<<>>, <<0>>, <<1>>, <<2>>, <<3>>, <<4>>, <<5>>, <<128, 3>>, <<129, 0>>, <<129>>}

\* ... followed by payload bytes
PayloadBytes == {0, 1, 2, 3}

MetaInputs == {l \o d : l \in LengthFields, d \in SeqsUpTo(PayloadBytes, MaxPayload)}

\* the variant whose codec reads an event of type t: the registered one, or
\* Undefined
receiverFor(t) == IF Dispatch(t) = Nil THEN Undefined(t, <<>>) ELSE Dispatch(t)

InitDecode ==
    /\ typ \in MetaTypes
    /\ input \in MetaInputs
    /\ pos = 0
    /\ reader = NoReader
    /\ arg = Nil
    /\ raw = <<>>
    /\ ret = NoCall
    /\ calls = 0
    /\ op = "source"

\* meta.ReadFrom(typ, rd)
MetaReadFrom ==
    /\ calls = 0
    /\ LET out == ReadFrom(typ, input, pos)
       IN  ret' = out.ret /\ pos' = out.pos
    /\ calls' = 1
    /\ op' = "ReadFrom"
    /\ UNCHANGED <<input, reader, typ, arg, raw>>

\* readFrom of the variant codec, called on the source directly
CodecReadFrom ==
    /\ calls = 0
    /\ LET out == readFrom(receiverFor(typ), input, pos)
       IN  ret' = out.ret /\ pos' = out.pos
    /\ calls' = 1
    /\ op' = "readFrom"
    /\ UNCHANGED <<input, reader, typ, arg, raw>>

\* Raw() of the decoded value
ReEncode ==
    /\ op \in {"ReadFrom", "readFrom"}
    /\ ret.kind = "return" /\ ret.err = "nil"
    /\ arg' = ret.msg
    /\ LET out == Raw(ret.msg)
       IN  raw' = out.bytes /\ op' = (IF out.panic THEN "RawPanic" ELSE "Raw")
    /\ UNCHANGED <<input, pos, reader, typ, ret, calls>>

NextDecode == MetaReadFrom \/ CodecReadFrom \/ ReEncode

SpecDecode == InitDecode /\ [][NextDecode]_vars

\* the source holds a complete event: a length field and that many bytes
WellFormed ==
    LET l == ReadVarLength(input, 0)
    IN  l.err = "nil" /\ l.pos + l.v <= Len(input)

DeclaredPayload ==
    LET l == ReadVarLength(input, 0)
    IN  SubSeq(input, l.pos + 1, l.pos + l.v)

\* C1: ReadFrom with a type id that has no registry entry returns, without
\* error and without aborting, the Undefined value of that type id whose Data
\* is the declared payload.
C1_UnknownTypeIsUndefined ==
    (op = "ReadFrom" /\ typ \notin DOMAIN metaMessages /\ WellFormed) =>
        ret = Returned(Undefined(typ, DeclaredPayload), "nil")

\* C2: ReadFrom with a registered type id decodes with the registered codec
\* and returns a value of that variant, never an Undefined value.
C2_RegisteredTypeIsVariant ==
    (op = "ReadFrom" /\ typ \in DOMAIN metaMessages /\ typ # byteSequencerSpecificInfo) =>
        /\ ret = readFrom(metaMessages[typ], input, 0).ret
        /\ (ret.kind = "return" /\ ret.err = "nil") =>
               ret.msg.variant = metaMessages[typ].variant

\* C8: decoding a Tempo event of declared length 3 whose microseconds value
\* is 0 returns an error and no Tempo value.
C8_TempoZeroIsError ==
    (op = "readFrom" /\ typ = byteTempo /\ Len(input) >= 4
       /\ SubSeq(input, 1, 4) = <<3, 0, 0, 0>>) =>
        (ret.kind = "return" /\ ret.err # "nil" /\ ret.msg = Nil)

-----------------------------------------------------------------------------
(* Encoding constructed values and decoding the bytes again *)

Denominators == {1, 2, 4, 8, 16, 32}

EncodeValues ==
    {Tempo(bpm) : bpm \in (1 .. MaxBPM) \cup {60000000, 60000001}}
    \cup {TimeSignature(n, d) : n \in 1 .. 255, d \in Denominators}

InitEncode ==
    /\ arg \in EncodeValues
    /\ typ = 0
    /\ input = <<>>
    /\ pos = 0
    /\ reader = NoReader
    /\ raw = <<>>
    /\ ret = NoCall
    /\ calls = 0
    /\ op = "construct"

\* arg.Raw()
EncodeRaw ==
    /\ op = "construct"
    /\ LET out == Raw(arg)
       IN  raw' = out.bytes /\ op' = (IF out.panic THEN "RawPanic" ELSE "Raw")
    /\ UNCHANGED <<input, pos, reader, typ, arg, ret, calls>>

\* the bytes after the FF and type prefix, read by the codec of that type
DecodeRaw ==
    /\ op = "Raw"
    /\ typ' = raw[2]
    /\ input' = SubSeq(raw, 3, Len(raw))
    /\ LET out == readFrom(receiverFor(raw[2]), SubSeq(raw, 3, Len(raw)), 0)
       IN  ret' = out.ret /\ pos' = out.pos
    /\ calls' = 1
    /\ op' = "readFrom"
    /\ UNCHANGED <<reader, arg, raw>>

NextEncode == EncodeRaw \/ DecodeRaw

SpecEncode == InitEncode /\ [][NextEncode]_vars

Min(a, b) == IF a < b THEN a ELSE b

\* the three big-endian bytes of n, zero-padded on the left
BigEndian3(n) == <<n \div 65536, (n \div 256) % 256, n % 256>>

\* C9: for every BPM >= 1, Tempo(BPM).Raw() is FF 51 03 and the 3 big-endian
\* bytes of min(60,000,000 div BPM, 0xFFFFFF); Tempo(120) has payload 07 A1 20
\* and decoding it returns Tempo(120).
C9_TempoRaw ==
    (arg.variant = "Tempo" /\ op \in {"Raw", "readFrom"}) =>
        /\ raw = <<255, 81, 3>> \o BigEndian3(Min(60000000 \div arg.bpm, 16777215))
        /\ arg.bpm = 120 => SubSeq(raw, 4, 6) = <<7, 161, 32>>
        /\ (arg.bpm = 120 /\ op = "readFrom") => (ret = Returned(Tempo(120), "nil") /\ pos = 4)

C9_Witness ==
    /\ arg = Tempo(120) /\ op = "readFrom"
    /\ raw = <<255, 81, 3, 7, 161, 32>>
    /\ ret = Returned(Tempo(120), "nil")

\* C10: for numerator 1..255 and denominator 1, 2, 4, 8, 16 or 32, decoding
\* the bytes of TimeSignature{numerator, denominator}.Raw() after the FF 58
\* prefix returns TimeSignature{numerator, denominator}.
C10_TimeSignatureRoundTrip ==
    (arg.variant = "TimeSignature" /\ op = "readFrom") => ret = Returned(arg, "nil")

-----------------------------------------------------------------------------
(* Decoding key signatures: every pair of payload bytes *)

Bytes == 0 .. 255

InitKey ==
    /\ typ = byteKeySignature
    /\ \E sf \in Bytes, mode \in Bytes : input = <<2, sf, mode>>
    /\ pos = 0
    /\ reader = NoReader
    /\ arg = Nil
    /\ raw = <<>>
    /\ ret = NoCall
    /\ calls = 0
    /\ op = "source"

\* Note() of the decoded KeySignature (Text() and String() call it)
NoteOf ==
    /\ op = "readFrom"
    /\ ret.kind = "return" /\ ret.err = "nil"
    /\ ret.msg.variant = "KeySignature"
    /\ arg' = ret.msg
    /\ op' = (IF KeySignature_Note(ret.msg).panic THEN "NotePanic" ELSE "Note")
    /\ UNCHANGED <<input, pos, reader, typ, raw, ret, calls>>

NextKey == MetaReadFrom \/ CodecReadFrom \/ ReEncode \/ NoteOf

SpecKey == InitKey /\ [][NextKey]_vars

\* the payload bytes of the key signature source
sfByte == IF input[2] >= 128 THEN input[2] - 256 ELSE input[2]

modeByte == input[3]

Abs(x) == IF x < 0 THEN -x ELSE x

\* C11: for every signed byte sf and mode byte 0 or 1, KeySignature.readFrom
\* returns Key = ((sf*7) - (3 if minor else 0)) mod 12 in 0..11, Num = abs(sf),
\* IsFlat = (sf < 0), IsMajor = (mode = 0).
C11_KeyFromSignedByte ==
    (op = "readFrom" /\ modeByte \in {0, 1}) =>
        ret = Returned(KeySignature((sfByte * 7 - (IF modeByte = 1 THEN 3 ELSE 0)) % 12,
                                    modeByte = 0, Abs(sfByte), sfByte < 0), "nil")

\* C17: every KeySignature returned by KeySignature.readFrom, for every pair
\* of payload bytes, has Key in 0..11, and Note() on it does not panic.
C17_KeyInOctave ==
    /\ (op = "readFrom" /\ ret.kind = "return" /\ ret.err = "nil") =>
           (ret.msg.variant = "KeySignature" /\ ret.msg.Key \in 0 .. 11)
    /\ op # "NotePanic"

C17_Witness ==
    /\ op = "Note"
    /\ input = <<2, 255, 255>>
    /\ arg.Key \in 0 .. 11 /\ arg.IsFlat

-----------------------------------------------------------------------------
(* Claims about the variant codecs, checked on the decoded meta sources *)

\* the value in arg was decoded by the codec of the variant of type typ
FromCodec == arg.variant = receiverFor(typ).variant

\* the bytes of the event in the source: the length field and the payload
EventBytes ==
    LET l == ReadVarLength(input, 0)
    IN  SubSeq(input, 1, l.pos + l.v)

DropLast2(q) == SubSeq(q, 1, Len(q) - 2)

\* C12: for every meta event that a variant codec decodes without error,
\* Raw() of the decoded value is FF, the type and the bytes of the event,
\* except for the last two payload bytes of a TimeSignature.
C12_WireRoundTrip ==
    (op \in {"Raw", "RawPanic"} /\ FromCodec /\ WellFormed) =>
        /\ op = "Raw"
        /\ IF arg.variant = "TimeSignature"
           THEN DropLast2(raw) = <<255, typ>> \o DropLast2(EventBytes)
           ELSE raw = <<255, typ>> \o EventBytes

\* the payload size each fixed-size variant requires
FixedTypes ==
    {byteEndOfTrack, byteMIDIPort, byteMIDIChannel, byteTempo, byteTimeSignature,
     byteKeySignature}

RequiredLength(t) ==
    CASE t = byteEndOfTrack -> 0
      [] t = byteMIDIPort -> 1
      [] t = byteMIDIChannel -> 1
      [] t = byteTempo -> 3
      [] t = byteTimeSignature -> 4
      [] t = byteKeySignature -> 2

DeclaredLength == ReadVarLength(input, 0)

C14_SequenceNumberLength ==
    (op = "readFrom" /\ typ = byteSequenceNumber /\ DeclaredLength.err = "nil") =>
        /\ DeclaredLength.v = 0 => ret = Returned(SequenceNumber(0), "nil")
        /\ (DeclaredLength.v = 2 /\ WellFormed) =>
               ret = Returned(SequenceNumber(DeclaredPayload[1] * 256 + DeclaredPayload[2]),
                              "nil")
        /\ DeclaredLength.v \notin {0, 2} => ret = Returned(Nil, "UnexpectedMessageLength")

\* C15: whenever a variant codec returns a value, it has read the length as
\* a VLQ and consumed exactly the length field and the declared number of
\* payload bytes.
C15_StreamPosition ==
    (op = "readFrom" /\ ret.kind = "return" /\ ret.err = "nil") =>
        (DeclaredLength.err = "nil" /\ pos = DeclaredLength.pos + DeclaredLength.v)

TextVariants ==
    {"Text", "Copyright", "Sequence", "TrackInstrument", "Marker", "Lyric", "CuePoint",
     "DevicePort"}

\* the value holding the declared payload, for the variant of type typ
PayloadValue ==
    IF receiverFor(typ).variant = "Undefined" THEN Undefined(typ, DeclaredPayload)
    ELSE TextOf(receiverFor(typ).variant, DeclaredPayload)

\* the length field of the source is the minimal VLQ of the declared length
MinimalLength ==
    SubSeq(input, 1, DeclaredLength.pos) = VlqEncode(DeclaredLength.v)

AcceptsEveryLength ==
    (op = "readFrom" /\ receiverFor(typ).variant \in TextVariants \cup {"Undefined"}
       /\ WellFormed) =>
        (ret = Returned(PayloadValue, "nil") /\ pos = DeclaredLength.pos + DeclaredLength.v)

UndefinedRawLayout ==
    (op = "Raw" /\ FromCodec /\ arg.variant = "Undefined") =>
        raw = <<255, arg.Typ>> \o VlqEncode(Len(arg.Data)) \o arg.Data

====
